---- MODULE Spec2Model ----
(***************************************************************************)
(* The parallel bug hunter of src/tools/bug_hunter.py: the start/stop      *)
(* lifecycle of ParallelBugHunter, its background _monitor_loop task, the  *)
(* per-file check _check_file, BugHunterTool.run_impl and the verdict      *)
(* classification at the end of _check_file.                               *)
(*                                                                         *)
(* Everything runs on one asyncio event loop: start() and _check_file()    *)
(* contain no await, so a scan cycle (enumeration, the checks of all new   *)
(* files, the update of last_files) runs without yielding, and the callers *)
(* of start()/stop() only run while every loop task is suspended (not yet  *)
(* started, or inside asyncio.sleep).  The workspace is changed by the     *)
(* outside world at any time.                                              *)
(*                                                                         *)
(* Strings are sequences of one-character strings, so that lower(),        *)
(* startswith() and the substring test are computed, not assumed.          *)
(*                                                                         *)
(* Spec is the program with two callers and a workspace of two files;      *)
(* SpecClassify runs the check of one file over a wider set of response    *)
(* texts; SpecLive adds the scheduling of the event loop as fairness.      *)
(***************************************************************************)
EXTENDS Integers, Sequences, FiniteSets, TLC

\* ---------------------------------------------------------------- bounds
\* start() creates a new task each time it takes effect; the model stops
\* creating tasks after MaxStarts of them.
MaxStarts == 2

\* ------------------------------------------------------- program constants
MaxFileSize == 50000
MinCodeLen == 50

\* ------------------------------------------------------------ the universe
Paths == {"a.py", "b.py"}
Callers == {"c1", "c2"}
Tasks == 1..MaxStarts
NoTask == 0

\* The states of a .py file of the workspace: its size in bytes as
\* os.path.getsize reports it and the length in characters of what read()
\* returns (at most the size: UTF-8 and newline translation only shrink).
FileKinds ==
  << [size |-> 49, len |-> 49],
     [size |-> 100, len |-> 100],
     [size |-> 50000, len |-> 50000],
     [size |-> 60000, len |-> 60000] >>
Absent == 0

\* ------------------------------------------------------------------ strings
UpperCase ==
  <<"A","B","C","D","E","F","G","H","I","J","K","L","M",
    "N","O","P","Q","R","S","T","U","V","W","X","Y","Z">>
LowerCase ==
  <<"a","b","c","d","e","f","g","h","i","j","k","l","m",
    "n","o","p","q","r","s","t","u","v","w","x","y","z">>

lower_char(c) ==
  IF \E i \in 1..Len(UpperCase) : UpperCase[i] = c
    THEN LowerCase[CHOOSE i \in 1..Len(UpperCase) : UpperCase[i] = c]
    ELSE c

\* str.lower()
lower(s) == [i \in 1..Len(s) |-> lower_char(s[i])]

\* str.startswith(prefix)
startswith(s, prefix) ==
  /\ Len(s) >= Len(prefix)
  /\ SubSeq(s, 1, Len(prefix)) = prefix

\* `sub in s` for strings
contains(s, sub) ==
  \E i \in 1..(Len(s) - Len(sub) + 1) : SubSeq(s, i, i + Len(sub) - 1) = sub

BUGS_FOUND_MARKER == <<"b","u","g","s","_","f","o","u","n","d">>
NO_BUGS_MARKER == <<"n","o","_","b","u","g","s">>

bug_indicators ==
  { <<"e","r","r","o","r">>,
    <<"b","u","g">>,
    <<"i","s","s","u","e">>,
    <<"p","r","o","b","l","e","m">>,
    <<"f","i","x">>,
    <<"w","r","o","n","g">>,
    <<"i","n","c","o","r","r","e","c","t">>,
    <<"f","a","i","l","s">> }

\* The two fixed outputs of run_impl when the model call fails.
ERROR_PREFIX ==
  <<"E","r","r","o","r"," ","d","u","r","i","n","g"," ",
    "a","n","a","l","y","s","i","s",":"," ">>
FAILED_OUTPUT ==
  <<"F","a","i","l","e","d"," ","t","o"," ",
    "a","n","a","l","y","z","e"," ","c","o","d","e">>

\* What client.generate can do: raise (with a message), return an empty
\* list, or return a list whose first element carries a text.
ExcMessages == { <<"b","o","o","m">> }
ResponseTexts ==
  { <<"B","u","g","s","_","F","O","U","N","D",":"," ","x">>,
    <<"N","O","_","B","U","G","S">> }

Outcomes ==
  [kind : {"raise"}, text : ExcMessages]
    \cup [kind : {"empty"}, text : {<<>>}]
    \cup [kind : {"text"}, text : ResponseTexts]

\* ------------------------------------------------ the texts of a response
\* A wider set of response texts, for the classification alone: an opening
\* (empty, a marker in some casing, or a near miss of a marker), ": ", a word
\* (a fallback indicator in lower or upper case, a near miss, or nothing).
upper_char(c) ==
  IF \E i \in 1..Len(LowerCase) : LowerCase[i] = c
    THEN UpperCase[CHOOSE i \in 1..Len(LowerCase) : LowerCase[i] = c]
    ELSE c

upper(s) == [i \in 1..Len(s) |-> upper_char(s[i])]

Openings ==
  { <<>>,
    NO_BUGS_MARKER, upper(NO_BUGS_MARKER), <<"N","o","_","B","u","g","s">>,
    BUGS_FOUND_MARKER, upper(BUGS_FOUND_MARKER),
    <<" ","n","o","_","b","u","g","s">>, <<"n","o"," ","b","u","g","s">> }

Words ==
  bug_indicators \cup {upper(w) : w \in bug_indicators}
    \cup { <<>>, <<"f","i","n","e">>, <<"e","r","r">>, <<"f","a","i","l">> }

WideTexts == {o \o <<":", " ">> \o w : o \in Openings, w \in Words}

WideOutcomes == Outcomes \cup [kind : {"text"}, text : WideTexts]

\* BugHunterTool.run_impl: the tool_output for each outcome of the call.
run_impl(outcome) ==
  CASE outcome.kind = "raise" -> ERROR_PREFIX \o outcome.text
    [] outcome.kind = "text" -> outcome.text
    [] OTHER -> FAILED_OUTPUT

\* The verdict with the tool_output compared as it came, not lower-cased.
classify_case_sensitive(tool_output) ==
  LET analysis_text == tool_output IN
    IF startswith(analysis_text, BUGS_FOUND_MARKER) THEN "BugsFound"
    ELSE IF startswith(analysis_text, NO_BUGS_MARKER) THEN "NoBugs"
    ELSE IF \E indicator \in bug_indicators : contains(analysis_text, indicator)
      THEN "Unknown"
    ELSE "Inconclusive"

\* The verdict with the fallback scan made before the marker tests.
classify_fallback_first(tool_output) ==
  LET analysis_text == lower(tool_output) IN
    IF \E indicator \in bug_indicators : contains(analysis_text, indicator)
      THEN "Unknown"
    ELSE IF startswith(analysis_text, BUGS_FOUND_MARKER) THEN "BugsFound"
    ELSE IF startswith(analysis_text, NO_BUGS_MARKER) THEN "NoBugs"
    ELSE "Inconclusive"

\* The verdict with the indicators looked for at the start of the text only.
classify_indicator_prefix(tool_output) ==
  LET analysis_text == lower(tool_output) IN
    IF startswith(analysis_text, BUGS_FOUND_MARKER) THEN "BugsFound"
    ELSE IF startswith(analysis_text, NO_BUGS_MARKER) THEN "NoBugs"
    ELSE IF \E indicator \in bug_indicators : startswith(analysis_text, indicator)
      THEN "Unknown"
    ELSE "Inconclusive"

\* The verdict of _check_file on a tool_output.
classify(tool_output) ==
  LET analysis_text == lower(tool_output) IN
    IF startswith(analysis_text, BUGS_FOUND_MARKER) THEN "BugsFound"
    ELSE IF startswith(analysis_text, NO_BUGS_MARKER) THEN "NoBugs"
    ELSE IF \E indicator \in bug_indicators : contains(analysis_text, indicator)
      THEN "Unknown"
    ELSE "Inconclusive"

\* The verdicts on which _check_file reaches a call of on_bugs_found.
notifies(tool_output) == classify(tool_output) \in {"BugsFound", "Unknown"}


\* ------------------------------------------------------------------- state
VARIABLES
  fs,              \* the workspace: path -> Absent or an index of FileKinds
  is_running,      \* ParallelBugHunter.is_running
  task,            \* ParallelBugHunter.task (NoTask is None)
  on_bugs_found,   \* TRUE when a callback is registered
  tpc,             \* task -> where its _monitor_loop coroutine stands
  must_cancel,     \* task -> a cancellation was requested and not yet delivered
  last_files,      \* task -> the local last_files of its _monitor_loop
  current_files,   \* the local current_files of the cycle under way
  pending,         \* the files of new_files the for loop has not reached yet
  file_path,       \* the argument of the _check_file call under way
  file_kind,       \* the state in which that call found the file
  cpc,             \* caller -> "idle", or "stop_await" inside stop()
  cwait,           \* caller -> the task its stop() awaits
  op,              \* "start" or "stop" after a call of it that changed nothing else
  \* what happened so far in the cycle under way (reset when it ends)
  enumFailed,      \* _get_python_files caught an exception
  cycleResult,     \* path -> how its _check_file call went, if there was one
  cycleCalls,      \* the calls of on_bugs_found, in order: path, text, raised
  \* what happened since the last effective start()
  runHandled,      \* the files passed to the Analyzer or skipped by a filter
  sentStayed,      \* the files sent to the Analyzer in this run and enumerated ever since
  prevPresent,     \* the .py files the workspace held in the last completed cycle
  sinceLast,       \* the workspace of the cycle under way against the cycle before
  \* what the running scheduler owes
  waiting          \* the files that came into its workspace, have stayed, readable
                   \* and within the thresholds, and were not sent to the Analyzer

lifecycle == <<is_running, task, tpc, must_cancel, last_files, cpc, cwait>>
cycle == <<current_files, pending, file_path, file_kind>>
runHistory ==
  <<enumFailed, cycleResult, cycleCalls, runHandled, sentStayed, prevPresent, sinceLast>>
history == <<runHistory, waiting>>
vars == <<fs, on_bugs_found, op, lifecycle, cycle, history>>

\* cycleResult[p].kind: "none" (not checked), "error" (getsize or read
\* raised), "skip" (filtered), "sent" (request in flight), or the kind of the
\* outcome of client.generate, with its text and the verdict _check_file
\* reached on the tool_output.
Result(kind) == [kind |-> kind, text |-> <<>>, verdict |-> "-"]
NoPath == "-"
\* prevPresent before the first cycle of a run has completed.
NoCycle == {NoPath}
\* sinceLast: "first" when no cycle of the run has completed, "same" when
\* the workspace holds the same set of .py files as in the last completed
\* cycle, "changed" when it does not, "-" outside a cycle.

\* tpc[t]: "none" (not created), "new" (created, first step not run),
\* "checking" (in a cycle, between two file checks), "analyzing" (inside
\* run_impl), "sleeping" (in the sleep that ends a cycle), "error_sleeping"
\* (in the sleep of the `except Exception` handler), "done".
Alive == {"new", "sleeping", "error_sleeping", "checking", "analyzing"}
Suspended == {"new", "sleeping", "error_sleeping"}
MidCycle == {"checking", "analyzing"}

\* The event loop runs one coroutine at a time and a cycle never yields:
\* another coroutine gets a step only when no task is inside a cycle.
EventLoopFree == \A t \in Tasks : tpc[t] \notin MidCycle

Present == {p \in Paths : fs[p] # Absent}

\* A file in state k passes the two filters of _check_file.
WithinThresholds(k) ==
  /\ k # Absent
  /\ FileKinds[k].size <= MaxFileSize
  /\ FileKinds[k].len >= MinCodeLen

Init ==
  /\ fs = [p \in Paths |-> Absent]
  /\ is_running = FALSE
  /\ task = NoTask
  /\ on_bugs_found = FALSE
  /\ tpc = [t \in Tasks |-> "none"]
  /\ must_cancel = [t \in Tasks |-> FALSE]
  /\ last_files = [t \in Tasks |-> {}]
  /\ current_files = {}
  /\ pending = {}
  /\ file_path = NoPath
  /\ file_kind = Absent
  /\ cpc = [c \in Callers |-> "idle"]
  /\ cwait = [c \in Callers |-> NoTask]
  /\ op = "-"
  /\ enumFailed = FALSE
  /\ cycleResult = [p \in Paths |-> Result("none")]
  /\ cycleCalls = <<>>
  /\ runHandled = {}
  /\ sentStayed = {}
  /\ prevPresent = NoCycle
  /\ sinceLast = "-"
  /\ waiting = {}

\* ------------------------------------------------------------ the workspace
\* The outside world creates, rewrites or deletes a file.  A change made
\* while a cycle runs is seen by that cycle as a change made before it (the
\* cycle reads a file once, in its check) or as a failing getsize or read, so
\* the changes are taken between the cycles.
FsWrite(p, k) ==
  /\ fs[p] # k
  /\ EventLoopFree
  /\ fs' = [fs EXCEPT ![p] = k]
  /\ waiting' = IF ~WithinThresholds(k) THEN waiting \ {p}
                ELSE IF is_running /\ fs[p] = Absent THEN waiting \cup {p}
                ELSE waiting
  /\ UNCHANGED <<on_bugs_found, op, lifecycle, cycle, runHistory>>

\* The owner sets on_bugs_found, before it starts the hunter.
RegisterCallback ==
  /\ ~is_running
  /\ ~on_bugs_found
  /\ EventLoopFree
  /\ on_bugs_found' = TRUE
  /\ op' = "-"
  /\ UNCHANGED <<fs, lifecycle, cycle, history>>

\* ------------------------------------------------------------- start, stop
FreshTask ==
  CHOOSE t \in Tasks :
    tpc[t] = "none" /\ \A u \in Tasks : tpc[u] = "none" => t <= u

ResetHistory ==
  /\ enumFailed' = FALSE
  /\ cycleResult' = [p \in Paths |-> Result("none")]
  /\ cycleCalls' = <<>>
  /\ runHandled' = {}
  /\ sentStayed' = {}
  /\ prevPresent' = NoCycle
  /\ sinceLast' = "-"

\* start() with the is_running guard removed.
StartUnguarded(c) ==
  /\ cpc[c] = "idle"
  /\ EventLoopFree
  /\ \E t \in Tasks : tpc[t] = "none"
  /\ op' = IF is_running THEN "start" ELSE "-"
  /\ is_running' = TRUE
  /\ task' = FreshTask
  /\ tpc' = [tpc EXCEPT ![FreshTask] = "new"]
  /\ ResetHistory
  /\ waiting' = {p \in Paths : WithinThresholds(fs[p])}
  /\ UNCHANGED <<fs, on_bugs_found, must_cancel, last_files, cpc, cwait, cycle>>

\* ParallelBugHunter.start
Start(c) ==
  /\ cpc[c] = "idle"
  /\ EventLoopFree
  /\ is_running \/ \E t \in Tasks : tpc[t] = "none"
  /\ IF is_running
       THEN /\ op' = "start"
            /\ UNCHANGED <<fs, on_bugs_found, lifecycle, cycle, history>>
       ELSE /\ op' = "-"
            /\ is_running' = TRUE
            /\ task' = FreshTask
            /\ tpc' = [tpc EXCEPT ![FreshTask] = "new"]
            /\ ResetHistory
            /\ waiting' = {p \in Paths : WithinThresholds(fs[p])}
            /\ UNCHANGED <<fs, on_bugs_found, must_cancel, last_files, cpc, cwait,
                           cycle>>

\* stop() that awaits self.task whenever there is one, done or not.
StopAlwaysAwaits(c) ==
  /\ cpc[c] = "idle"
  /\ EventLoopFree
  /\ op' = IF is_running \/ (task # NoTask /\ tpc[task] # "done") THEN "-" ELSE "stop"
  /\ is_running' = FALSE
  /\ IF task # NoTask /\ tpc[task] # "done"
       THEN must_cancel' = [must_cancel EXCEPT ![task] = TRUE]
       ELSE UNCHANGED must_cancel
  /\ cpc' = [cpc EXCEPT ![c] = "stop_await"]
  /\ cwait' = [cwait EXCEPT ![c] = task]
  /\ waiting' = {}
  /\ UNCHANGED <<fs, on_bugs_found, task, tpc, last_files, cycle, runHistory>>

\* stop() that cancels the task and returns without awaiting it.
StopNoAwait(c) ==
  /\ cpc[c] = "idle"
  /\ EventLoopFree
  /\ op' = IF is_running \/ (task # NoTask /\ tpc[task] # "done") THEN "-" ELSE "stop"
  /\ is_running' = FALSE
  /\ IF task # NoTask /\ tpc[task] # "done"
       THEN must_cancel' = [must_cancel EXCEPT ![task] = TRUE]
       ELSE UNCHANGED must_cancel
  /\ waiting' = {}
  /\ UNCHANGED <<fs, on_bugs_found, task, tpc, last_files, cpc, cwait, cycle,
                 runHistory>>

\* stop() that clears the flag and awaits the task without cancelling it.
StopNoCancel(c) ==
  /\ cpc[c] = "idle"
  /\ EventLoopFree
  /\ op' = IF is_running \/ (task # NoTask /\ tpc[task] # "done") THEN "-" ELSE "stop"
  /\ is_running' = FALSE
  /\ IF task # NoTask /\ tpc[task] # "done"
       THEN /\ cpc' = [cpc EXCEPT ![c] = "stop_await"]
            /\ cwait' = [cwait EXCEPT ![c] = task]
       ELSE UNCHANGED <<cpc, cwait>>
  /\ waiting' = {}
  /\ UNCHANGED <<fs, on_bugs_found, task, tpc, must_cancel, last_files, cycle, runHistory>>

\* ParallelBugHunter.stop, up to its await: the flag, the cancel request.
Stop(c) ==
  /\ cpc[c] = "idle"
  /\ EventLoopFree
  /\ op' = IF is_running \/ (task # NoTask /\ tpc[task] # "done") THEN "-" ELSE "stop"
  /\ is_running' = FALSE
  /\ IF task # NoTask /\ tpc[task] # "done"
       THEN /\ must_cancel' = [must_cancel EXCEPT ![task] = TRUE]
            /\ cpc' = [cpc EXCEPT ![c] = "stop_await"]
            /\ cwait' = [cwait EXCEPT ![c] = task]
       ELSE UNCHANGED <<must_cancel, cpc, cwait>>
  /\ waiting' = {}
  /\ UNCHANGED <<fs, on_bugs_found, task, tpc, last_files, cycle, runHistory>>

\* ParallelBugHunter.stop, from its await on: the awaited task is done (it
\* returned, or it raised CancelledError, which stop() swallows).
StopReturn(c) ==
  /\ cpc[c] = "stop_await"
  /\ EventLoopFree
  /\ tpc[cwait[c]] = "done"
  /\ op' = "-"
  /\ cpc' = [cpc EXCEPT ![c] = "idle"]
  /\ cwait' = [cwait EXCEPT ![c] = NoTask]
  /\ UNCHANGED <<fs, on_bugs_found, is_running, task, tpc, must_cancel, last_files,
                 cycle, history>>

\* ------------------------------------------------------------ _monitor_loop
\* A cancellation caught by the `except Exception` handler (CancelledError
\* as a subclass of Exception, or a handler of BaseException): the handler
\* logs, sleeps, and the loop goes back to its while test.
LoopCancelledSwallowed(t) ==
  /\ tpc[t] \in Suspended
  /\ must_cancel[t]
  /\ EventLoopFree
  /\ op' = "-"
  /\ tpc' = [tpc EXCEPT ![t] = IF tpc[t] = "new" THEN "done" ELSE "error_sleeping"]
  /\ must_cancel' = [must_cancel EXCEPT ![t] = FALSE]
  /\ UNCHANGED <<fs, on_bugs_found, is_running, task, last_files, cpc, cwait, cycle,
                 history>>

\* The end of a cancelled loop when last_files is an attribute of the hunter
\* set in __init__ alone: the next loop task finds it as this one left it.
LoopCancelledSharedFiles(t) ==
  /\ tpc[t] \in Suspended
  /\ must_cancel[t]
  /\ EventLoopFree
  /\ op' = "-"
  /\ tpc' = [tpc EXCEPT ![t] = "done"]
  /\ must_cancel' = [must_cancel EXCEPT ![t] = FALSE]
  /\ last_files' = [u \in Tasks |-> IF tpc[u] \in {"none", "new"} THEN last_files[t]
                                     ELSE IF u = t THEN {} ELSE last_files[u]]
  /\ IF t = task
       THEN /\ current_files' = {}
            /\ UNCHANGED <<pending, file_path, file_kind, waiting>>
            /\ ResetHistory
       ELSE UNCHANGED <<cycle, history>>
  /\ UNCHANGED <<fs, on_bugs_found, is_running, task, cpc, cwait>>

\* A cancellation reaches the coroutine where it is suspended: before its
\* first step (the task ends cancelled without running the body), inside
\* the asyncio.sleep of the try block (CancelledError, caught, break) or
\* inside the asyncio.sleep of the handler (CancelledError leaves the
\* coroutine).  In each case the task is done.
LoopCancelled(t) ==
  /\ tpc[t] \in Suspended
  /\ must_cancel[t]
  /\ EventLoopFree
  /\ op' = "-"
  /\ tpc' = [tpc EXCEPT ![t] = "done"]
  /\ must_cancel' = [must_cancel EXCEPT ![t] = FALSE]
  /\ last_files' = [last_files EXCEPT ![t] = {}]
  /\ IF t = task
       THEN /\ current_files' = {}
            /\ UNCHANGED <<pending, file_path, file_kind, waiting>>
            /\ ResetHistory
       ELSE UNCHANGED <<cycle, history>>
  /\ UNCHANGED <<fs, on_bugs_found, is_running, task, cpc, cwait>>

\* _get_python_files: the .py files of the workspace or, when the walk
\* raises, the files collected before it raised (the exception is caught
\* inside and the partial set is returned).
Enumerations ==
  {[failed |-> FALSE, files |-> Present]}
    \cup {[failed |-> TRUE, files |-> s] : s \in SUBSET Present}

\* The top of the while loop after the first step or after the sleep: the
\* is_running test, the enumeration and the difference with last_files.
\* The event loop runs the ready callbacks in the order they were scheduled:
\* cancel() schedules the wake-up of the task it cancels, so that task ends
\* before a task created later takes a step.
LoopIterate(t) ==
  /\ tpc[t] \in Suspended
  /\ \A u \in Tasks : ~must_cancel[u]
  /\ EventLoopFree
  /\ op' = "-"
  /\ IF ~is_running
       THEN /\ tpc' = [tpc EXCEPT ![t] = "done"]
            /\ last_files' = [last_files EXCEPT ![t] = {}]
            /\ UNCHANGED <<cycle, history>>
       ELSE /\ \E e \in Enumerations :
                 LET new_files == e.files \ last_files[t] IN
                   /\ current_files' = e.files
                   /\ pending' = new_files
                   /\ enumFailed' = e.failed
                   /\ sentStayed' = sentStayed \cap e.files
            /\ sinceLast' = IF prevPresent = NoCycle THEN "first"
                            ELSE IF prevPresent = Present THEN "same" ELSE "changed"
            /\ tpc' = [tpc EXCEPT ![t] = "checking"]
            /\ UNCHANGED <<last_files, file_path, file_kind, cycleResult, cycleCalls,
                           runHandled, prevPresent, waiting>>
  /\ UNCHANGED <<fs, on_bugs_found, is_running, task, must_cancel, cpc, cwait>>

\* The handler of a cycle that raised, as if the snapshot of the cycle were
\* stored on the way out as well (last_files = current_files in a finally):
\* the new files of the failed cycle are taken as seen.
LoopCycleRaisesKeepsSnapshot(t) ==
  /\ tpc[t] = "checking"
  /\ pending # {}
  /\ pending = current_files \ last_files[t]
  /\ op' = "-"
  /\ tpc' = [tpc EXCEPT ![t] = "error_sleeping"]
  /\ pending' = {}
  /\ last_files' = [last_files EXCEPT ![t] = current_files]
  /\ enumFailed' = FALSE
  /\ sinceLast' = "-"
  /\ UNCHANGED <<fs, on_bugs_found, is_running, task, must_cancel, current_files, cpc,
                 cwait, file_path, file_kind, cycleResult, cycleCalls, runHandled,
                 sentStayed, waiting, prevPresent>>

\* The logging call that opens a cycle with new files (line 142) raises: the
\* `except Exception` handler logs and sleeps, no file of the cycle is
\* checked and last_files keeps its value (current_files is not read again
\* before the next enumeration assigns it).
LoopCycleRaises(t) ==
  /\ tpc[t] = "checking"
  /\ pending # {}
  /\ pending = current_files \ last_files[t]
  /\ op' = "-"
  /\ tpc' = [tpc EXCEPT ![t] = "error_sleeping"]
  /\ pending' = {}
  /\ current_files' = last_files[t]
  /\ enumFailed' = FALSE
  /\ sinceLast' = "-"
  /\ UNCHANGED <<fs, on_bugs_found, is_running, task, must_cancel, last_files, cpc,
                 cwait, file_path, file_kind, cycleResult, cycleCalls, runHandled,
                 sentStayed, waiting,
                 prevPresent>>

\* _check_file up to the call of run_impl, with the size filter left out.
precheck_no_size_filter(k, io) ==
  IF k = Absent \/ io = "getsize_raises" THEN "error"
  ELSE IF io = "read_raises" THEN "error"
  ELSE IF FileKinds[k].len < MinCodeLen THEN "skip"
  ELSE "sent"

\* _check_file up to the call of run_impl, for a file in state k: getsize
\* (raises when the file is gone, or for an I/O error), the size filter, the
\* read (may raise), the length filter.
precheck(k, io) ==
  IF k = Absent \/ io = "getsize_raises" THEN "error"
  ELSE IF FileKinds[k].size > MaxFileSize THEN "skip"
  ELSE IF io = "read_raises" THEN "error"
  ELSE IF FileKinds[k].len < MinCodeLen THEN "skip"
  ELSE "sent"

\* _check_file in which an exception of getsize or read ends the loop task
\* (no except clause around the check, none around the cycle).
LoopCheckFileUncaught(t, p) ==
  /\ tpc[t] = "checking"
  /\ p \in pending
  /\ op' = "-"
  /\ pending' = pending \ {p}
  /\ file_path' = p
  /\ file_kind' = fs[p]
  /\ \E io \in {"ok", "getsize_raises", "read_raises"} :
       LET r == precheck(fs[p], io) IN
         /\ tpc' = [tpc EXCEPT ![t] =
                      IF r = "sent" THEN "analyzing"
                      ELSE IF r = "error" THEN "done" ELSE "checking"]
         /\ cycleResult' = [cycleResult EXCEPT ![p] = Result(r)]
         /\ runHandled' = IF r = "error" THEN runHandled ELSE runHandled \cup {p}
         /\ sentStayed' = IF r = "sent" THEN sentStayed \cup {p} ELSE sentStayed
         /\ waiting' = IF r \in {"sent", "error"} THEN waiting \ {p} ELSE waiting
  /\ UNCHANGED <<fs, on_bugs_found, is_running, task, must_cancel, last_files, cpc,
                 cwait, current_files, enumFailed, cycleCalls, prevPresent, sinceLast>>

\* The checks of a cycle started together (asyncio.gather over new_files,
\* with a run_impl that yields): a check starts while another one waits for
\* its response.
LoopCheckFileConcurrent(t, p) ==
  /\ tpc[t] \in {"checking", "analyzing"}
  /\ p \in pending
  /\ op' = "-"
  /\ pending' = pending \ {p}
  /\ file_path' = p
  /\ file_kind' = fs[p]
  /\ \E io \in {"ok", "getsize_raises", "read_raises"} :
       LET r == precheck(fs[p], io) IN
         /\ tpc' = [tpc EXCEPT ![t] = IF r = "sent" THEN "analyzing" ELSE tpc[t]]
         /\ cycleResult' = [cycleResult EXCEPT ![p] = Result(r)]
         /\ runHandled' = IF r = "error" THEN runHandled ELSE runHandled \cup {p}
         /\ sentStayed' = IF r = "sent" THEN sentStayed \cup {p} ELSE sentStayed
         /\ waiting' = IF r \in {"sent", "error"} THEN waiting \ {p} ELSE waiting
  /\ UNCHANGED <<fs, on_bugs_found, is_running, task, must_cancel, last_files, cpc,
                 cwait, current_files, enumFailed, cycleCalls, prevPresent, sinceLast>>

\* One `await self._check_file(file_path)` of the for loop, up to the call of
\* run_impl: an exception is caught and logged, a filtered file returns.
LoopCheckFile(t, p) ==
  /\ tpc[t] = "checking"
  /\ p \in pending
  /\ op' = "-"
  /\ pending' = pending \ {p}
  /\ file_path' = p
  /\ file_kind' = fs[p]
  /\ \E io \in {"ok", "getsize_raises", "read_raises"} :
       LET r == precheck(fs[p], io) IN
         /\ tpc' = [tpc EXCEPT ![t] = IF r = "sent" THEN "analyzing" ELSE "checking"]
         /\ cycleResult' = [cycleResult EXCEPT ![p] = Result(r)]
         /\ runHandled' = IF r = "error" THEN runHandled ELSE runHandled \cup {p}
         /\ sentStayed' = IF r = "sent" THEN sentStayed \cup {p} ELSE sentStayed
         /\ waiting' = IF r \in {"sent", "error"} THEN waiting \ {p} ELSE waiting
  /\ UNCHANGED <<fs, on_bugs_found, is_running, task, must_cancel, last_files, cpc,
                 cwait, current_files, enumFailed, cycleCalls, prevPresent, sinceLast>>

\* The rest of _check_file: client.generate returns or raises inside
\* run_impl, the tool_output is classified, and on a BugsFound or Unknown
\* verdict the callback, when there is one, is called with the path and the
\* tool_output; an exception of the callback is caught and logged.
CheckFileTail(t, outcomes) ==
  /\ tpc[t] = "analyzing"
  /\ op' = "-"
  /\ \E outcome \in outcomes, cb_raises \in BOOLEAN :
       LET tool_output == run_impl(outcome)
           calls == notifies(tool_output) /\ on_bugs_found
       IN /\ cb_raises => calls
          /\ cycleResult' =
               [cycleResult EXCEPT ![file_path] =
                  [kind |-> outcome.kind, text |-> outcome.text,
                   verdict |-> classify(tool_output)]]
          /\ cycleCalls' =
               IF calls
                 THEN Append(cycleCalls,
                             [path |-> file_path, text |-> tool_output,
                              raised |-> cb_raises])
                 ELSE cycleCalls
  /\ tpc' = [tpc EXCEPT ![t] = "checking"]
  /\ UNCHANGED <<fs, on_bugs_found, is_running, task, must_cancel, last_files, cpc,
                 cwait, cycle, enumFailed, runHandled,
                 sentStayed, waiting, prevPresent, sinceLast>>

\* The rest of _check_file with the callback called outside any try: its
\* exception leaves _check_file and reaches the handler of _monitor_loop,
\* which sleeps; the rest of the cycle is lost.
LoopAnalyzerReturnUncaught(t) ==
  /\ tpc[t] = "analyzing"
  /\ op' = "-"
  /\ \E outcome \in Outcomes, cb_raises \in BOOLEAN :
       LET tool_output == run_impl(outcome)
           calls == notifies(tool_output) /\ on_bugs_found
       IN /\ cb_raises => calls
          /\ cycleResult' =
               [cycleResult EXCEPT ![file_path] =
                  [kind |-> outcome.kind, text |-> outcome.text,
                   verdict |-> classify(tool_output)]]
          /\ cycleCalls' =
               IF calls
                 THEN Append(cycleCalls,
                             [path |-> file_path, text |-> tool_output,
                              raised |-> cb_raises])
                 ELSE cycleCalls
          /\ tpc' = [tpc EXCEPT ![t] = IF cb_raises THEN "error_sleeping" ELSE "checking"]
          /\ pending' = IF cb_raises THEN {} ELSE pending
  /\ UNCHANGED <<fs, on_bugs_found, is_running, task, must_cancel, last_files, cpc,
                 cwait, current_files, file_path, file_kind, enumFailed, runHandled,
                 sentStayed, waiting,
                 prevPresent, sinceLast>>

\* The rest of _check_file without the `if self.on_bugs_found` tests: the
\* attribute is called on every notifying verdict, and the call of None
\* raises (TypeError, caught and logged by _check_file).
LoopAnalyzerReturnNoGuard(t) ==
  /\ tpc[t] = "analyzing"
  /\ op' = "-"
  /\ \E outcome \in Outcomes, cb_raises \in BOOLEAN :
       LET tool_output == run_impl(outcome)
           calls == notifies(tool_output)
       IN /\ cb_raises => calls
          /\ (calls /\ ~on_bugs_found) => cb_raises
          /\ cycleResult' =
               [cycleResult EXCEPT ![file_path] =
                  [kind |-> outcome.kind, text |-> outcome.text,
                   verdict |-> classify(tool_output)]]
          /\ cycleCalls' =
               IF calls
                 THEN Append(cycleCalls,
                             [path |-> file_path, text |-> tool_output,
                              raised |-> cb_raises])
                 ELSE cycleCalls
  /\ tpc' = [tpc EXCEPT ![t] = "checking"]
  /\ UNCHANGED <<fs, on_bugs_found, is_running, task, must_cancel, last_files, cpc,
                 cwait, cycle, enumFailed, runHandled,
                 sentStayed, waiting, prevPresent, sinceLast>>

\* The return of run_impl in the monitoring loop.
LoopAnalyzerReturn(t) == CheckFileTail(t, Outcomes)

\* The end of the cycle without the assignment to last_files.
LoopEndCycleKeepsOld(t) ==
  /\ tpc[t] = "checking"
  /\ pending = {}
  /\ op' = "-"
  /\ tpc' = [tpc EXCEPT ![t] = "sleeping"]
  /\ file_path' = NoPath
  /\ file_kind' = Absent
  /\ enumFailed' = FALSE
  /\ cycleResult' = [p \in Paths |-> Result("none")]
  /\ cycleCalls' = <<>>
  /\ prevPresent' = Present
  /\ sinceLast' = "-"
  /\ UNCHANGED <<fs, on_bugs_found, is_running, task, must_cancel, last_files, cpc,
                 cwait, current_files, pending, runHandled, sentStayed, waiting>>

\* The end of the cycle with last_files grown by current_files (a union).
LoopEndCycleUnion(t) ==
  /\ tpc[t] = "checking"
  /\ pending = {}
  /\ op' = "-"
  /\ last_files' = [last_files EXCEPT ![t] = last_files[t] \cup current_files]
  /\ tpc' = [tpc EXCEPT ![t] = "sleeping"]
  /\ file_path' = NoPath
  /\ file_kind' = Absent
  /\ enumFailed' = FALSE
  /\ cycleResult' = [p \in Paths |-> Result("none")]
  /\ cycleCalls' = <<>>
  /\ prevPresent' = Present
  /\ sinceLast' = "-"
  /\ UNCHANGED <<fs, on_bugs_found, is_running, task, must_cancel, cpc, cwait,
                 current_files, pending, runHandled,
                 sentStayed, waiting>>

\* The end of the cycle: last_files = current_files, then asyncio.sleep.
LoopEndCycle(t) ==
  /\ tpc[t] = "checking"
  /\ pending = {}
  /\ op' = "-"
  /\ last_files' = [last_files EXCEPT ![t] = current_files]
  /\ tpc' = [tpc EXCEPT ![t] = "sleeping"]
  /\ file_path' = NoPath
  /\ file_kind' = Absent
  /\ enumFailed' = FALSE
  /\ cycleResult' = [p \in Paths |-> Result("none")]
  /\ cycleCalls' = <<>>
  /\ prevPresent' = Present
  /\ sinceLast' = "-"
  /\ UNCHANGED <<fs, on_bugs_found, is_running, task, must_cancel, cpc, cwait,
                 current_files, pending, runHandled,
                 sentStayed, waiting>>

\* ------------------------------------------------------------ specification
Next ==
  \/ \E p \in Paths, k \in 0..Len(FileKinds) : FsWrite(p, k)
  \/ RegisterCallback
  \/ \E c \in Callers : Start(c)
  \/ \E c \in Callers : Stop(c)
  \/ \E c \in Callers : StopReturn(c)
  \/ \E t \in Tasks : LoopCancelled(t)
  \/ \E t \in Tasks : LoopIterate(t)
  \/ \E t \in Tasks : LoopCycleRaises(t)
  \/ \E t \in Tasks, p \in Paths : LoopCheckFile(t, p)
  \/ \E t \in Tasks : LoopAnalyzerReturn(t)
  \/ \E t \in Tasks : LoopEndCycle(t)

Spec == Init /\ [][Next]_vars

\* The scheduling of the event loop: a step that is ready is run.  The
\* wake-up of a cancelled task, the wake-up of a loop whose sleep is over and
\* the code of a cycle (which has no await and whose model call returns or
\* raises) stay ready until they run; the wake-up of a stop() whose task is
\* done is ready whenever no cycle holds the event loop, which is again and
\* again.
CycleStep(t) ==
  \/ \E p \in Paths : LoopCheckFile(t, p)
  \/ LoopAnalyzerReturn(t)
  \/ LoopCycleRaises(t)
  \/ LoopEndCycle(t)

Fairness ==
  /\ \A t \in Tasks : WF_vars(LoopCancelled(t))
  /\ \A t \in Tasks : WF_vars(LoopIterate(t))
  /\ \A t \in Tasks : WF_vars(CycleStep(t))
  /\ \A c \in Callers : SF_vars(StopReturn(c))

\* The program under that scheduling, on a workspace where one file comes
\* and goes and no callback is registered: the lifecycle of the loops and of
\* the stop() calls is the one of Spec.
NextLive ==
  \/ \E k \in {Absent, 2} : FsWrite("a.py", k)
  \/ \E c \in Callers : Start(c)
  \/ \E c \in Callers : Stop(c)
  \/ \E c \in Callers : StopReturn(c)
  \/ \E t \in Tasks : LoopCancelled(t)
  \/ \E t \in Tasks : LoopIterate(t)
  \/ \E t \in Tasks : LoopCycleRaises(t)
  \/ \E t \in Tasks, p \in Paths : LoopCheckFile(t, p)
  \/ \E t \in Tasks : LoopAnalyzerReturn(t)
  \/ \E t \in Tasks : LoopEndCycle(t)

SpecLive == Init /\ [][NextLive]_vars /\ Fairness

\* The calls the loop makes outside itself do not fail for ever: of the
\* enumerations of a loop that keeps running some succeed, and of the cycles
\* that found new files some get past their opening logging call to the
\* file checks.
EnvFairness ==
  /\ \A t \in Tasks : SF_vars(LoopIterate(t) /\ ~enumFailed')
  /\ \A t \in Tasks : SF_vars(\E p \in Paths : LoopCheckFile(t, p))

\* The program under the scheduling of the event loop in such a world.
SpecWatch == Init /\ [][NextLive]_vars /\ Fairness /\ EnvFairness

\* ------------------------------------------- the classification of a text
\* The hunter was started on a workspace that holds one file within the
\* thresholds; its loop checks the file, and the response is any of the wider
\* texts.
InitClassify ==
  /\ fs = [p \in Paths |-> IF p = "a.py" THEN 2 ELSE Absent]
  /\ is_running = TRUE
  /\ task = 1
  /\ on_bugs_found \in BOOLEAN
  /\ tpc = [t \in Tasks |-> IF t = 1 THEN "new" ELSE "none"]
  /\ must_cancel = [t \in Tasks |-> FALSE]
  /\ last_files = [t \in Tasks |-> {}]
  /\ current_files = {}
  /\ pending = {}
  /\ file_path = NoPath
  /\ file_kind = Absent
  /\ cpc = [c \in Callers |-> "idle"]
  /\ cwait = [c \in Callers |-> NoTask]
  /\ op = "-"
  /\ enumFailed = FALSE
  /\ cycleResult = [p \in Paths |-> Result("none")]
  /\ cycleCalls = <<>>
  /\ runHandled = {}
  /\ sentStayed = {}
  /\ prevPresent = NoCycle
  /\ sinceLast = "-"
  /\ waiting = {"a.py"}

\* The return of run_impl with any of the wider texts.
ClassifyResponse(t) == CheckFileTail(t, WideOutcomes)

NextClassify ==
  \/ \E t \in Tasks : LoopIterate(t)
  \/ \E t \in Tasks, p \in Paths : LoopCheckFile(t, p)
  \/ \E t \in Tasks : ClassifyResponse(t)
  \/ \E t \in Tasks : LoopEndCycle(t)

SpecClassify == InitClassify /\ [][NextClassify]_vars

\* ================================================================== claims
\* Helpers of the claims, written without the operators of the model.
Analyzed == {"sent", "raise", "empty", "text"}
CallsFor(p) == {i \in DOMAIN cycleCalls : cycleCalls[i].path = p}
CycleComplete == task # NoTask /\ tpc[task] = "checking" /\ pending = {}

\* text starts with marker, whatever the case of its letters.
HasMarkerAnyCase(text, marker) ==
  /\ Len(text) >= Len(marker)
  /\ \A i \in 1..Len(marker) :
       \/ text[i] = marker[i]
       \/ \E j \in 1..Len(LowerCase) : LowerCase[j] = marker[i] /\ UpperCase[j] = text[i]

\* C1: when the external model call failed for a file (it raised, or it
\* returned an empty list), the callback is not invoked for that file.
C1_NoCallbackOnFailure ==
  \A p \in Paths : cycleResult[p].kind \in {"raise", "empty"} => CallsFor(p) = {}

\* C2: in a cycle, a file that passed the filters and whose response starts
\* with the bugs-found marker, in any casing, gets exactly one call of the
\* registered callback, with its path and the response text as it came.
C2_BugsFoundCallsOnce ==
  \A p \in Paths :
    ( /\ on_bugs_found
      /\ cycleResult[p].kind = "text"
      /\ HasMarkerAnyCase(cycleResult[p].text, <<"b","u","g","s","_","f","o","u","n","d">>) )
    => /\ Cardinality(CallsFor(p)) = 1
       /\ \A i \in CallsFor(p) : cycleCalls[i].text = cycleResult[p].text

C2_Witness ==
  /\ CycleComplete
  /\ on_bugs_found
  /\ cycleResult["a.py"].kind = "text"
  /\ cycleResult["a.py"].text[1] = "B"
  /\ cycleResult["a.py"].text[2] = "u"
  /\ Len(cycleCalls) = 1
  /\ cycleCalls[1].path = "a.py"
  /\ cycleCalls[1].text = cycleResult["a.py"].text

\* C3: while the scheduler is Running (started, stop() not called since),
\* its loop task has not terminated and no cancellation is pending on it,
\* whatever failed in its cycles.
C3_LoopSurvives ==
  is_running => /\ task # NoTask
                /\ tpc[task] \in {"new", "sleeping", "error_sleeping", "checking",
                                 "analyzing"}
                /\ ~must_cancel[task]

\* The end of a cycle in which the enumeration failed, a file could not be
\* read, the analyzer call raised and the callback raised: the loop is alive
\* and about to sleep.
C3_Witness ==
  /\ is_running
  /\ CycleComplete
  /\ enumFailed
  /\ \E p \in Paths : cycleResult[p].kind = "error"
  /\ \E p \in Paths : cycleResult[p].kind = "raise"
  /\ \E i \in DOMAIN cycleCalls : cycleCalls[i].raised

\* C4: while the scheduler is Running no step creates a loop task or
\* replaces self.task, and a call of start() changes nothing: the running
\* loop and its observed-file set are as before.
C4_StartWhileRunningIsNoop ==
  [][ is_running =>
        /\ task' = task
        /\ \A t \in Tasks : tpc[t] = "none" => tpc'[t] = "none"
        /\ (op' = "start" /\ op # "start") =>
             UNCHANGED <<is_running, tpc, must_cancel, last_files, current_files,
                         pending, cpc, cwait>> ]_vars

C4_Witness ==
  /\ op = "start"
  /\ is_running
  /\ tpc[task] = "sleeping"
  /\ last_files[task] = Paths
  /\ \A t \in Tasks : t # task => tpc[t] = "none"

\* C5: while the scheduler is stopped, every loop task still alive has been
\* cancelled, is suspended, and has a stop() call waiting for it: stop() has
\* not returned before its loop exited, and once every stop() has returned
\* no loop is left to enumerate, analyze or notify.
C5_StopWaitsForLoopExit ==
  ~is_running =>
    \A t \in Tasks :
      tpc[t] \in {"new", "sleeping", "error_sleeping", "checking", "analyzing"} =>
        /\ tpc[t] \in {"new", "sleeping", "error_sleeping"}
        /\ must_cancel[t]
        /\ \E c \in Callers : cpc[c] = "stop_await" /\ cwait[c] = t

\* stop() has returned after cancelling a loop that had run cycles.
C5_Witness ==
  /\ ~is_running
  /\ task # NoTask
  /\ tpc[task] = "done"
  /\ \A c \in Callers : cpc[c] = "idle"
  /\ op = "-"

\* C6: when nothing is running (no task yet, or the task is done, and the
\* flag is off), a step that leaves the scheduler stopped, stop() in
\* particular, makes no caller wait, creates no loop and keeps self.task.
C6_StopWhenStoppedIsSafe ==
  [][ ( /\ ~is_running
        /\ task = NoTask \/ tpc[task] = "done"
        /\ ~is_running' )
      => /\ \A c \in Callers : cpc[c] = "idle" => cpc'[c] = "idle"
         /\ task' = task
         /\ \A t \in Tasks : tpc[t] = "none" => tpc'[t] = "none" ]_vars

\* stop() was just called a second time, after a stop() that completed.
C6_Witness ==
  /\ op = "stop"
  /\ ~is_running
  /\ task # NoTask
  /\ tpc[task] = "done"
  /\ \A c \in Callers : cpc[c] = "idle"

\* C7: every path of the observed-file set of the current run was, in a
\* cycle of this run, passed to the Analyzer or skipped by a filter.
C7_ObservedWereHandled ==
  task # NoTask => last_files[task] \subseteq runHandled

\* C8: a file skipped by the size or the length filter is not remembered as
\* seen: the cycle that skipped it does not put it in the observed-file set.
C8_SkippedNotRemembered ==
  [][ \A t \in Tasks :
        (tpc[t] = "checking" /\ tpc'[t] = "sleeping") =>
          \A p \in Paths : cycleResult[p].kind = "skip" => p \notin last_files'[t] ]_vars

\* C9: a cycle whose enumeration failed is abandoned: it analyzes no file
\* and it leaves the observed-file set as it was.
C9_FailedEnumerationAbandonsCycle ==
  [][ \A t \in Tasks :
        (tpc[t] = "checking" /\ tpc'[t] = "sleeping" /\ enumFailed) =>
          /\ last_files'[t] = last_files[t]
          /\ \A p \in Paths : cycleResult[p].kind \notin Analyzed ]_vars

\* C10: a request to the Analyzer is only in flight for a file of at most
\* 50000 bytes and at least 50 characters, and a file of more than 50000
\* bytes is in no cycle among the files passed to the Analyzer.
C10_AnalyzerOnlyWithinThresholds ==
  /\ \A t \in Tasks :
       tpc[t] = "analyzing" =>
         /\ file_kind # Absent
         /\ FileKinds[file_kind].size <= 50000
         /\ FileKinds[file_kind].len >= 50
  /\ \A p \in Paths :
       (fs[p] # Absent /\ FileKinds[fs[p]].size > 50000) =>
         cycleResult[p].kind \notin Analyzed

\* A request is in flight for a file of exactly 50000 bytes while the
\* 60000-byte file of the same cycle has been skipped.
C10_Witness ==
  /\ task # NoTask
  /\ tpc[task] = "analyzing"
  /\ FileKinds[file_kind].size = 50000
  /\ \E p \in Paths :
       /\ fs[p] # Absent
       /\ FileKinds[fs[p]].size = 60000
       /\ cycleResult[p].kind = "skip"

\* word occurs in text, whatever the case of its letters.
ContainsAnyCase(text, word) ==
  \E i \in 1..(Len(text) - Len(word) + 1) :
    HasMarkerAnyCase(SubSeq(text, i, Len(text)), word)

FallbackIndicators ==
  { <<"e","r","r","o","r">>, <<"b","u","g">>, <<"i","s","s","u","e">>, <<"p","r","o","b","l","e","m">>,
    <<"f","i","x">>, <<"w","r","o","n","g">>, <<"i","n","c","o","r","r","e","c","t">>, <<"f","a","i","l","s">> }

\* C11: in a cycle that finds the workspace with the same set of .py files
\* as the cycle completed before it in the same run, no file is new: nothing
\* is checked, no analyzer call is made and the callback is not invoked.
C11_SameWorkspaceNothingNew ==
  sinceLast = "same" =>
    /\ pending = {}
    /\ \A p \in Paths : cycleResult[p].kind = "none"
    /\ cycleCalls = <<>>

\* C12: a response that starts with the no-bugs marker, in any casing, gets
\* the verdict NoBugs and no call of the callback, whatever follows the
\* marker in the text.
C12_NoBugsMarkerWins ==
  \A p \in Paths :
    ( /\ cycleResult[p].kind = "text"
      /\ HasMarkerAnyCase(cycleResult[p].text, <<"n","o","_","b","u","g","s">>) )
    => /\ cycleResult[p].verdict = "NoBugs"
       /\ CallsFor(p) = {}

\* The response "No_Bugs: ERROR" came back with a callback registered, and
\* the cycle made no call.
C12_Witness ==
  /\ CycleComplete
  /\ on_bugs_found
  /\ cycleResult["a.py"].kind = "text"
  /\ cycleResult["a.py"].text = <<"N","o","_","B","u","g","s",":"," ","E","R","R","O","R">>
  /\ cycleCalls = <<>>

\* C13: for a response that starts with neither marker, the verdict is
\* Unknown when the text holds one of the eight fallback indicators, in any
\* casing and anywhere, and Inconclusive when it holds none; the registered
\* callback gets exactly one call, with the path and the text as it came, in
\* the first case and no call in the second.
C13_FallbackDecides ==
  \A p \in Paths :
    ( /\ cycleResult[p].kind = "text"
      /\ ~HasMarkerAnyCase(cycleResult[p].text, <<"b","u","g","s","_","f","o","u","n","d">>)
      /\ ~HasMarkerAnyCase(cycleResult[p].text, <<"n","o","_","b","u","g","s">>) )
    => LET indicated ==
             \E w \in FallbackIndicators : ContainsAnyCase(cycleResult[p].text, w)
       IN /\ cycleResult[p].verdict = IF indicated THEN "Unknown" ELSE "Inconclusive"
          /\ Cardinality(CallsFor(p)) = IF indicated /\ on_bugs_found THEN 1 ELSE 0
          /\ \A i \in CallsFor(p) : cycleCalls[i].text = cycleResult[p].text

\* The response " no_bugs: FIX" (the marker is not at the start) came back
\* and the callback was called once for it.
C13_Witness ==
  /\ CycleComplete
  /\ on_bugs_found
  /\ cycleResult["a.py"].kind = "text"
  /\ cycleResult["a.py"].text = <<" ","n","o","_","b","u","g","s",":"," ","F","I","X">>
  /\ Len(cycleCalls) = 1
  /\ cycleCalls[1].path = "a.py"
  /\ cycleCalls[1].text = cycleResult["a.py"].text

\* C14: once a call of the callback has raised in a cycle, the loop is still
\* running that cycle; the files not yet reached leave the cycle only by
\* being checked, and the cycle is left only at its end, with the
\* observed-file set replaced by the files enumerated.
C14_CallbackExceptionSwallowed ==
  [][ (\E i \in DOMAIN cycleCalls : cycleCalls[i].raised) =>
        /\ is_running
        /\ task # NoTask
        /\ tpc[task] \in {"checking", "analyzing"}
        /\ ~must_cancel[task]
        /\ \A p \in pending \ pending' : cycleResult'[p].kind # "none"
        /\ \/ tpc'[task] \in {"checking", "analyzing"} /\ pending' \subseteq pending
           \/ /\ tpc'[task] = "sleeping"
              /\ pending = {}
              /\ last_files'[task] = current_files ]_vars

\* The callback raised for the first file of a cycle; the second file was
\* checked and notified after it, and the cycle is about to end.
C14_Witness ==
  /\ CycleComplete
  /\ Len(cycleCalls) = 2
  /\ cycleCalls[1].raised
  /\ cycleCalls[1].path # cycleCalls[2].path
  /\ \A p \in Paths : cycleResult[p].kind = "text"

\* C15: the step that completes a cycle sets the observed-file set to the
\* set enumerated in that cycle, and the step that opens a cycle takes as
\* new the enumerated files that are not in the observed-file set; so a file
\* that the last completed cycle did not see in the workspace is new when
\* it is enumerated again.
C15_ObservedSetIsReplaced ==
  [][ \A t \in Tasks :
        /\ (tpc[t] \in {"checking", "analyzing"} /\ tpc'[t] = "sleeping") =>
             last_files'[t] = current_files
        /\ (tpc[t] \in {"new", "sleeping", "error_sleeping"} /\ tpc'[t] = "checking") =>
             /\ last_files'[t] = last_files[t]
             /\ pending' = current_files' \ last_files[t]
             /\ ~enumFailed' => current_files' = {p \in Paths : fs[p] # 0}
             /\ ~enumFailed' /\ prevPresent # {"-"} =>
                  {p \in Paths : fs[p] # 0} \ prevPresent \subseteq pending' ]_vars

\* a.py was passed to a check earlier in this run, the workspace of the last
\* completed cycle did not hold it, and the cycle under way takes it as new.
C15_Witness ==
  /\ task # NoTask
  /\ tpc[task] = "checking"
  /\ ~enumFailed
  /\ "a.py" \in pending
  /\ "a.py" \in runHandled
  /\ prevPresent # {"-"}
  /\ "a.py" \notin prevPresent

\* C16: a loop task starts with an empty observed-file set: in its first
\* cycle every file enumerated (every file of the workspace, when the
\* enumeration does not fail) is new, whatever the loop of the run before
\* had observed.
C16_RestartRescansAll ==
  [][ \A t \in Tasks :
        (tpc[t] = "new" /\ tpc'[t] = "checking") =>
          /\ last_files[t] = {}
          /\ pending' = current_files'
          /\ ~enumFailed' => pending' = {p \in Paths : fs[p] # 0} ]_vars

\* The second run, started after a stop() that has returned, is in its first
\* cycle with both files of the workspace new.
C16_Witness ==
  /\ task = 2
  /\ tpc[1] = "done"
  /\ \A c \in Callers : cpc[c] = "idle"
  /\ tpc[2] = "checking"
  /\ sinceLast = "first"
  /\ pending = {"a.py", "b.py"}

\* C17: a caller that is not inside stop() is not blocked by the loop: while
\* a request to the model is in flight for a file, the caller can take a
\* step, a call of stop() for one.
C17_CallerNeverBlocked ==
  (\E t \in Tasks : tpc[t] = "analyzing") =>
    \A c \in Callers : cpc[c] = "idle" => ENABLED Stop(c)

\* C18: at most one request to the model service is in flight: at most one
\* loop task is inside run_impl, and at most one file of the cycle has been
\* sent without its response being back.
C18_OneRequestInFlight ==
  /\ Cardinality({t \in Tasks : tpc[t] = "analyzing"}) <= 1
  /\ Cardinality({p \in Paths : cycleResult[p].kind = "sent"}) <= 1
  /\ \A t \in Tasks : tpc[t] = "analyzing" =>
       \A p \in Paths : cycleResult[p].kind = "sent" => p = file_path

\* The request for the second new file of a cycle is in flight after the
\* response for the first one came back.
C18_Witness ==
  /\ task # NoTask
  /\ tpc[task] = "analyzing"
  /\ \E p \in Paths :
       /\ p # file_path
       /\ cycleResult[p].kind = "text"
       /\ cycleResult[file_path].kind = "sent"

\* C19: at most one loop task is alive without a pending cancellation, a
\* task inside a cycle is the current task of a running scheduler, and a
\* task whose cancellation is pending takes no step but its exit.
C19_OneLoopScans ==
  [][ /\ Cardinality({t \in Tasks :
                        /\ tpc[t] \in {"new", "sleeping", "error_sleeping", "checking",
                                        "analyzing"}
                        /\ ~must_cancel[t]}) <= 1
      /\ \A t \in Tasks :
           /\ tpc[t] \in {"checking", "analyzing"} =>
                t = task /\ is_running /\ ~must_cancel[t]
           /\ must_cancel[t] =>
                /\ tpc[t] \in {"new", "sleeping", "error_sleeping"}
                /\ tpc'[t] = tpc[t] \/ tpc'[t] = "done"
                /\ last_files'[t] = last_files[t] \/ tpc'[t] = "done" ]_vars

\* start() was called while a stop() waited for the first loop; that loop
\* has exited, its stop() has not returned yet, and the second loop is in a
\* cycle.
C19_Witness ==
  /\ task = 2
  /\ tpc[1] = "done"
  /\ tpc[2] = "analyzing"
  /\ \E c \in Callers : cpc[c] = "stop_await" /\ cwait[c] = 1

\* C20: every stop() that waits for its loop returns, and a loop whose
\* cancellation is pending (before its first step, in the sleep that ends a
\* cycle, or in the sleep of the error handler) takes no step but its exit.
C20_StopReturns ==
  /\ \A c \in Callers : (cpc[c] = "stop_await") ~> (cpc[c] = "idle")
  /\ [][ \A t \in Tasks :
            (must_cancel[t] /\ tpc'[t] # tpc[t]) => tpc'[t] = "done" ]_vars

\* A stop() waits for a loop that was cancelled in the sleep of the error
\* handler, after a cycle that failed.
C20_Witness ==
  \E c \in Callers :
    /\ cpc[c] = "stop_await"
    /\ tpc[cwait[c]] = "error_sleeping"
    /\ must_cancel[cwait[c]]

\* C21: a file that was passed to the Analyzer in this run and has been in
\* every enumeration since is not passed to it again; the callback is only
\* called for a file analyzed in the cycle under way, and once at most.  So
\* a file that is in every enumeration of a run is analyzed once at most and
\* notified once at most in that run.
C21_AnalyzedAtMostOnce ==
  [][ \A p \in Paths :
        /\ (cycleResult[p].kind # "sent" /\ cycleResult'[p].kind = "sent") =>
             p \notin sentStayed
        /\ Cardinality(CallsFor(p)) <= 1
        /\ CallsFor(p) # {} => cycleResult[p].kind \in {"raise", "empty", "text"} ]_vars

\* In a later cycle of a run b.py is new and its request is in flight, while
\* a.py, analyzed in an earlier cycle and enumerated ever since, is left
\* alone.
C21_Witness ==
  /\ task # NoTask
  /\ tpc[task] = "analyzing"
  /\ file_path = "b.py"
  /\ sinceLast = "changed"
  /\ "a.py" \in sentStayed
  /\ "a.py" \in current_files
  /\ cycleResult["a.py"].kind = "none"

C23_NoCallbackNoCall ==
  [][ ~on_bugs_found =>
        /\ cycleCalls' = <<>>
        /\ \A t \in Tasks :
             ( /\ tpc[t] = "analyzing" /\ tpc'[t] # "analyzing"
               /\ cycleResult'[file_path].verdict \in {"BugsFound", "Unknown"} ) =>
               /\ tpc'[t] = "checking"
               /\ pending' = pending
               /\ current_files' = current_files
               /\ file_path \in current_files
        /\ \A t \in Tasks :
             (tpc[t] = "checking" /\ tpc'[t] = "sleeping") =>
               \A p \in Paths :
                 cycleResult[p].verdict \in {"BugsFound", "Unknown"} =>
                   p \in last_files'[t] ]_vars

\* Without a callback, a cycle checked two files, one with a BugsFound and
\* one with an Unknown verdict, made no call and is about to end.
C23_Witness ==
  /\ CycleComplete
  /\ ~on_bugs_found
  /\ cycleResult["a.py"].verdict = "BugsFound"
  /\ cycleResult["b.py"].verdict = "Unknown"
  /\ cycleCalls = <<>>

====
